---- MODULE Spec2Model ----
(***************************************************************************)
(* Model of waltad/audio_notes (src/app.py): a Streamlit script that       *)
(* records audio notes, transcribes them, stores them as embedded points   *)
(* in a Qdrant collection and lists or searches them.                      *)
(*                                                                         *)
(* Three specifications share the variables:                               *)
(*   Spec      the note repository functions called one at a time          *)
(*   SpecRace  two add_note_to_db calls interleaving on the shared store   *)
(*   SpecApp   the script itself, one rerun per user interaction           *)
(***************************************************************************)
EXTENDS Integers, Sequences, FiniteSets, TLC

\* ------------------------------------------------------------------------
\* Program constants and model bounds
\* ------------------------------------------------------------------------

\* limit=10 of scroll (line 97) and of search (line 114)
Limit == 10

\* most points Spec lets the collection hold
MaxNotes == 11

QDRANT_COLLECTION_NAME == "notes"

\* Python's None, for a query that is absent and for a session entry set to None
None == "<None>"

\* score of an entry: None is the empty tuple, a number v is <<v>>
NoScore == <<>>

Score(v) == <<v>>

\* the texts notes are made of, and the queries tried on them
Texts == {"milk", "bread"}

Queries == {None, "", "milk", "dairy"}

VARIABLES
    collections,   \* the Qdrant client: collection name -> (point id -> point)
    createCalls,   \* number of create_collection requests issued
    call,          \* the most recent repository call: op, arg, ret, err
    lastAdded,     \* text of the most recent successful add_note_to_db
    \* two interleaving add_note_to_db calls (SpecRace)
    wpc,           \* writer -> "idle" | "counted"
    wcount,        \* writer -> the points_count it read
    wtext,         \* writer -> the note_text it is adding
    addsReturned,  \* number of add_note_to_db calls that returned without error
    addedTexts,    \* the texts those calls were given
    \* the script and its session (SpecApp)
    env,           \* OPENAI_API_KEY of the .env file, Absent when it has none
    session_state, \* st.session_state
    note_audio,    \* value of the audiorecorder component, "" when nothing recorded
    text_area,     \* the text area widget: None, or [value, content]
    search_input,  \* content of the search text input (query, line 208)
    key_input,     \* content of the API key text input
    clicked,       \* the button whose click started this run, or None
    shown,         \* the widgets rendered so far by this run
    prompted,      \* this run displayed the API key prompt
    pc             \* where the script run is

storeVars == <<collections, createCalls, call, lastAdded>>

\* ------------------------------------------------------------------------
\* Embedding client (get_embedding) - an opaque remote function of the text.
\* The embeddings returned by the remote model have unit length; here every
\* vector has length 5, so the cosine similarity of two of them is their dot
\* product over 25 and scores are kept as that dot product.
\* ------------------------------------------------------------------------

get_embedding(text) ==
    CASE text = "milk"  -> <<3, 4>>
      [] text = "bread" -> <<4, -3>>
      [] text = "dairy" -> <<0, 5>>
      [] OTHER          -> <<5, 0>>

Cosine(a, b) == a[1] * b[1] + a[2] * b[2]

\* ------------------------------------------------------------------------
\* Vector store adapter: the QdrantClient operations the script uses.
\* Each returns [err, val]; err # "none" is the exception the client raises.
\* ------------------------------------------------------------------------

NoPoints == <<>>

Ok(v) == [err |-> "none", val |-> v]

Raise(e) == [err |-> e, val |-> None]

collection_exists(C, name) == name \in DOMAIN C

\* create_collection: raises when the collection is already there
create_collection(C, name) ==
    IF name \in DOMAIN C
    THEN Raise("already_exists")
    ELSE Ok([n \in (DOMAIN C) \cup {name} |-> IF n = name THEN NoPoints ELSE C[n]])

count(C, name) ==
    IF name \in DOMAIN C
    THEN Ok(Cardinality(DOMAIN C[name]))
    ELSE Raise("not_found")

PointStruct(id, vector, payload) == [id |-> id, vector |-> vector, payload |-> payload]

\* an upsert that refuses an id already in use
upsertInsertOnly(C, name, point) ==
    IF name \notin DOMAIN C THEN Raise("not_found")
    ELSE IF point.id \in DOMAIN C[name] THEN Raise("conflict")
    ELSE Ok([C EXCEPT ![name] =
                [i \in (DOMAIN C[name]) \cup {point.id} |->
                    IF i = point.id
                    THEN [vector |-> point.vector, payload |-> point.payload]
                    ELSE C[name][i]]])

\* upsert: insert or overwrite by id
upsert(C, name, point) ==
    IF name \in DOMAIN C
    THEN Ok([C EXCEPT ![name] =
                [i \in (DOMAIN C[name]) \cup {point.id} |->
                    IF i = point.id
                    THEN [vector |-> point.vector, payload |-> point.payload]
                    ELSE C[name][i]]])
    ELSE Raise("not_found")

Min(S) == CHOOSE x \in S : \A y \in S : x <= y

RECURSIVE Ascending(_)
Ascending(S) == IF S = {} THEN <<>> ELSE <<Min(S)>> \o Ascending(S \ {Min(S)})

Take(s, n) == IF Len(s) <= n THEN s ELSE SubSeq(s, 1, n)

\* a scroll that ignores its limit
scrollAll(C, name, limit) ==
    IF name \in DOMAIN C
    THEN LET ids == Ascending(DOMAIN C[name])
         IN  Ok([k \in 1..Len(ids) |-> [id |-> ids[k], payload |-> C[name][ids[k]].payload]])
    ELSE Raise("not_found")

\* scroll: the first `limit` points in ascending id order, no scores
scroll(C, name, limit) ==
    IF name \in DOMAIN C
    THEN LET ids == Take(Ascending(DOMAIN C[name]), limit)
         IN  Ok([k \in 1..Len(ids) |-> [id |-> ids[k], payload |-> C[name][ids[k]].payload]])
    ELSE Raise("not_found")

\* i ranks before j for query vector qv: higher cosine first, equal scores by id
Before(P, qv, i, j) ==
    LET si == Cosine(P[i].vector, qv)
        sj == Cosine(P[j].vector, qv)
    IN  si > sj \/ (si = sj /\ i <= j)

RECURSIVE Ranked(_, _, _)
Ranked(P, qv, S) ==
    IF S = {} THEN <<>>
    ELSE LET best == CHOOSE i \in S : \A j \in S : Before(P, qv, i, j)
         IN  <<best>> \o Ranked(P, qv, S \ {best})

\* a search that fails on a collection without points
searchRaisesOnEmpty(C, name, query_vector, limit) ==
    IF name \notin DOMAIN C THEN Raise("not_found")
    ELSE IF DOMAIN C[name] = {} THEN Raise("empty_collection")
    ELSE LET P   == C[name]
             ids == Take(Ranked(P, query_vector, DOMAIN P), limit)
         IN  Ok([k \in 1..Len(ids) |->
                    [id |-> ids[k], payload |-> P[ids[k]].payload,
                     score |-> Cosine(P[ids[k]].vector, query_vector)]])

\* search: up to `limit` points by decreasing cosine similarity, each scored
search(C, name, query_vector, limit) ==
    IF name \in DOMAIN C
    THEN LET P   == C[name]
             ids == Take(Ranked(P, query_vector, DOMAIN P), limit)
         IN  Ok([k \in 1..Len(ids) |->
                    [id |-> ids[k], payload |-> P[ids[k]].payload,
                     score |-> Cosine(P[ids[k]].vector, query_vector)]])
    ELSE Raise("not_found")

\* ------------------------------------------------------------------------
\* Note repository
\* ------------------------------------------------------------------------

\* an assure that creates the collection without looking first
assureAlwaysCreates(C) ==
    LET r == create_collection(C, QDRANT_COLLECTION_NAME)
    IN  [collections |-> IF r.err = "none" THEN r.val ELSE C,
         created |-> 1, err |-> r.err]

\* assure_db_collection_exists: the collections it leaves, the create requests
\* it issued and the error it raised
assure_db_collection_exists(C) ==
    IF ~collection_exists(C, QDRANT_COLLECTION_NAME)
    THEN LET r == create_collection(C, QDRANT_COLLECTION_NAME)
         IN  [collections |-> IF r.err = "none" THEN r.val ELSE C,
              created |-> 1, err |-> r.err]
    ELSE [collections |-> C, created |-> 0, err |-> "none"]

\* an id that does not follow the count
NextIdFixed(points_count) == 1

\* id=points_count.count + 1
NextId(points_count) == points_count + 1

\* the upsert at the end of add_note_to_db, with the count read before it
UpsertNote(C, points_count, note_text) ==
    upsert(C, QDRANT_COLLECTION_NAME,
           PointStruct(NextId(points_count), get_embedding(note_text),
                       [text |-> note_text]))

add_note_to_db(C, note_text) ==
    LET points_count == count(C, QDRANT_COLLECTION_NAME)
    IN  IF points_count.err # "none" THEN Raise(points_count.err)
        ELSE UpsertNote(C, points_count.val, note_text)

\* Python truthiness of the query: `not query` holds for None and for ""
Truthy(x) == x # None /\ x # ""

Unranked(notes) ==
    [k \in 1..Len(notes) |-> [text |-> notes[k].payload.text, score |-> NoScore]]

\* result entries that take a zero score for a missing one
RankedNotesFalsyScore(notes) ==
    [k \in 1..Len(notes) |->
        [text |-> notes[k].payload.text,
         score |-> IF notes[k].score = 0 THEN NoScore ELSE Score(notes[k].score)]]

\* result entries built back to front
RankedNotesReversed(notes) ==
    [k \in 1..Len(notes) |->
        [text |-> notes[Len(notes) + 1 - k].payload.text,
         score |-> Score(notes[Len(notes) + 1 - k].score)]]

RankedNotes(notes) ==
    [k \in 1..Len(notes) |->
        [text |-> notes[k].payload.text, score |-> Score(notes[k].score)]]

list_notes_from_db(C, query) ==
    IF ~Truthy(query)
    THEN LET notes == scroll(C, QDRANT_COLLECTION_NAME, Limit)
         IN  IF notes.err # "none" THEN notes ELSE Ok(Unranked(notes.val))
    ELSE LET notes == search(C, QDRANT_COLLECTION_NAME, get_embedding(query), Limit)
         IN  IF notes.err # "none" THEN notes ELSE Ok(RankedNotes(notes.val))

\* the points of the notes collection ({} of ids when it does not exist)
Points == IF QDRANT_COLLECTION_NAME \in DOMAIN collections
          THEN collections[QDRANT_COLLECTION_NAME] ELSE NoPoints

NumPoints == Cardinality(DOMAIN Points)

\* ------------------------------------------------------------------------
\* The repository calls as steps on the store
\* ------------------------------------------------------------------------

DoAssure ==
    LET r == assure_db_collection_exists(collections)
    IN  /\ collections' = r.collections
        /\ createCalls' = createCalls + r.created
        /\ call' = [op |-> "assure", arg |-> None, ret |-> None, err |-> r.err]
        /\ UNCHANGED lastAdded

DoAdd(note_text) ==
    LET r == add_note_to_db(collections, note_text)
    IN  /\ collections' = IF r.err = "none" THEN r.val ELSE collections
        /\ call' = [op |-> "add", arg |-> note_text, ret |-> None, err |-> r.err]
        /\ lastAdded' = IF r.err = "none" THEN note_text ELSE lastAdded
        /\ UNCHANGED createCalls

DoList(query) ==
    LET r == list_notes_from_db(collections, query)
    IN  /\ call' = [op |-> "list", arg |-> query, ret |-> r.val, err |-> r.err]
        /\ UNCHANGED <<collections, createCalls, lastAdded>>

InitStore ==
    /\ collections = <<>>
    /\ createCalls = 0
    /\ call = [op |-> "none", arg |-> None, ret |-> None, err |-> "none"]
    /\ lastAdded = None

\* ------------------------------------------------------------------------
\* Two add_note_to_db calls interleaving on the shared (cached) client.
\* A call reads the count (lines 75-78), embeds the text (line 84, a remote
\* call during which the other writer may run) and then upserts (lines 79-90).
\* ------------------------------------------------------------------------

Writers == {1, 2}

\* most add_note_to_db calls the writers start in SpecRace
MaxRaceAdds == 3

raceVars == <<wpc, wcount, wtext, addsReturned, addedTexts>>

InitRace ==
    /\ wpc = [w \in Writers |-> "idle"]
    /\ wcount = [w \in Writers |-> 0]
    /\ wtext = [w \in Writers |-> None]
    /\ addsReturned = 0
    /\ addedTexts = {}

AddsStarted == addsReturned + Cardinality({w \in Writers : wpc[w] = "counted"})

WriterCount(w) ==
    \E t \in Texts :
        /\ wpc[w] = "idle"
        /\ AddsStarted < MaxRaceAdds
        /\ LET points_count == count(collections, QDRANT_COLLECTION_NAME)
           IN  IF points_count.err # "none"
               THEN /\ call' = [op |-> "add", arg |-> t, ret |-> None,
                                err |-> points_count.err]
                    /\ UNCHANGED <<wpc, wcount, wtext>>
               ELSE /\ wpc' = [wpc EXCEPT ![w] = "counted"]
                    /\ wcount' = [wcount EXCEPT ![w] = points_count.val]
                    /\ wtext' = [wtext EXCEPT ![w] = t]
                    /\ UNCHANGED call
        /\ UNCHANGED <<collections, createCalls, lastAdded, addsReturned, addedTexts>>

WriterUpsert(w) ==
    /\ wpc[w] = "counted"
    /\ LET r == UpsertNote(collections, wcount[w], wtext[w])
       IN  /\ collections' = IF r.err = "none" THEN r.val ELSE collections
           /\ call' = [op |-> "add", arg |-> wtext[w], ret |-> None, err |-> r.err]
           /\ lastAdded' = IF r.err = "none" THEN wtext[w] ELSE lastAdded
           /\ addsReturned' = IF r.err = "none" THEN addsReturned + 1 ELSE addsReturned
           /\ addedTexts' = IF r.err = "none" THEN addedTexts \cup {wtext[w]}
                            ELSE addedTexts
    /\ wpc' = [wpc EXCEPT ![w] = "idle"]
    /\ UNCHANGED <<createCalls, wcount, wtext>>

\* ------------------------------------------------------------------------
\* The script (lines 131-214). Streamlit runs it from the top once per user
\* interaction; st.session_state and the widgets' contents survive the runs
\* of one browser session, the Qdrant client (st.cache_resource) all of them.
\* ------------------------------------------------------------------------

\* an entry st.session_state does not hold
Absent == "<absent>"

\* what the .env file can hold for OPENAI_API_KEY
EnvKeys == {Absent, "", "sk-env"}

Keys == {"", "sk-typed"}

Audios == {"rec1", "rec2"}

Transcripts == {"", "milk"}

Edits == {"", "bread"}

AppQueries == {"", "dairy"}

\* most points SpecApp lets the collection hold
MaxAppNotes == 2

appVars == <<env, session_state, note_audio, text_area, search_input, key_input,
             clicked, shown, prompted, pc>>

NoWidget == [on |-> FALSE, value |-> "", content |-> ""]

NewSession ==
    [openai_api_key |-> Absent, note_audio_bytes_md5 |-> Absent,
     note_audio_bytes |-> Absent, note_text |-> Absent, note_audio_text |-> Absent]

\* st.session_state.get(key)
Get(s, key) == IF s[key] = Absent THEN None ELSE s[key]

\* note_audio.export(audio, format="mp3"); audio.getvalue()
export(audio) ==
    CASE audio = "rec1" -> "mp3:rec1"
      [] audio = "rec2" -> "mp3:rec2"
      [] OTHER          -> "mp3:"

\* md5(bytes).hexdigest()
md5(bytes) ==
    CASE bytes = "mp3:rec1" -> "1f3a"
      [] bytes = "mp3:rec2" -> "c07d"
      [] OTHER              -> "d41d"

InitApp ==
    /\ session_state = NewSession
    /\ note_audio = ""
    /\ text_area = NoWidget
    /\ search_input = ""
    /\ key_input = ""
    /\ clicked = None
    /\ shown = {}
    /\ prompted = FALSE
    /\ pc = "idle"

\* a user interaction starts a run of the script from the top
StartRun(button) ==
    /\ pc = "idle"
    /\ pc' = "protect"
    /\ clicked' = button
    /\ shown' = {}
    /\ prompted' = FALSE
    /\ UNCHANGED <<env, storeVars, raceVars>>

\* the page is opened (or reloaded): a new session
OpenPage ==
    /\ StartRun(None)
    /\ session_state' = NewSession
    /\ note_audio' = ""
    /\ text_area' = NoWidget
    /\ search_input' = ""
    /\ key_input' = ""

TypeKey ==
    \E k \in Keys :
        /\ "key_input" \in shown
        /\ StartRun(None)
        /\ key_input' = k
        /\ UNCHANGED <<session_state, note_audio, text_area, search_input>>

RecordAudio ==
    \E a \in Audios :
        /\ "recorder" \in shown
        /\ StartRun(None)
        /\ note_audio' = a
        /\ UNCHANGED <<session_state, text_area, search_input, key_input>>

EditNote ==
    \E t \in Edits :
        /\ "text_area" \in shown
        /\ StartRun(None)
        /\ text_area' = [text_area EXCEPT !.content = t]
        /\ UNCHANGED <<session_state, note_audio, search_input, key_input>>

TypeQuery ==
    \E q \in AppQueries :
        /\ "query" \in shown
        /\ StartRun(None)
        /\ search_input' = q
        /\ UNCHANGED <<session_state, note_audio, text_area, key_input>>

ClickButton ==
    \E b \in {"transcribe", "save", "search"} :
        /\ b \in shown
        /\ b = "save" => NumPoints < MaxAppNotes
        /\ StartRun(b)
        /\ UNCHANGED <<session_state, note_audio, text_area, search_input, key_input>>

\* a click on a button while the text area holds an edit not yet sent: the
\* edit and the click reach the same run
EditNoteAndClick ==
    \E t \in Edits, b \in {"transcribe", "save", "search"} :
        /\ "text_area" \in shown
        /\ b \in shown
        /\ b = "save" => NumPoints < MaxAppNotes
        /\ StartRun(b)
        /\ text_area' = [text_area EXCEPT !.content = t]
        /\ UNCHANGED <<session_state, note_audio, search_input, key_input>>

\* lines 135-152: OpenAI API Key protection
ProtectKey ==
    /\ pc = "protect"
    /\ IF Truthy(Get(session_state, "openai_api_key"))
       THEN /\ pc' = "init"
            /\ UNCHANGED <<session_state, shown, prompted, clicked>>
       ELSE IF env # Absent
       THEN /\ session_state' = [session_state EXCEPT !.openai_api_key = env]
            /\ pc' = IF Truthy(env) THEN "init" ELSE "idle"
            /\ clicked' = IF Truthy(env) THEN clicked ELSE None
            /\ UNCHANGED <<shown, prompted>>
       ELSE /\ session_state' = [session_state EXCEPT !.openai_api_key = key_input]
            /\ IF Truthy(key_input)
               THEN \* st.success, st.rerun()
                    /\ pc' = "protect"
                    /\ shown' = {}
                    /\ prompted' = FALSE
                    /\ UNCHANGED clicked
               ELSE \* st.stop()
                    /\ pc' = "idle"
                    /\ shown' = shown \cup {"key_input"}
                    /\ prompted' = TRUE
                    /\ clicked' = None
    /\ UNCHANGED <<env, note_audio, text_area, search_input, key_input, storeVars, raceVars>>

Default(s, key, v) == IF s[key] = Absent THEN v ELSE s[key]

\* lines 154-165: initialize session state variables
InitSession ==
    /\ pc = "init"
    /\ session_state' =
          [openai_api_key |-> session_state.openai_api_key,
           note_audio_bytes_md5 |-> Default(session_state, "note_audio_bytes_md5", None),
           note_audio_bytes |-> Default(session_state, "note_audio_bytes", None),
           note_text |-> Default(session_state, "note_text", ""),
           note_audio_text |-> Default(session_state, "note_audio_text", "")]
    /\ pc' = "assure"
    /\ UNCHANGED <<env, note_audio, text_area, search_input, key_input, clicked, shown,
                   prompted, storeVars, raceVars>>

\* line 168
Assure ==
    /\ pc = "assure"
    /\ DoAssure
    /\ pc' = "recorder"
    /\ UNCHANGED <<env, session_state, note_audio, text_area, search_input, key_input,
                   clicked, shown, prompted, raceVars>>

\* lines 172-187: the recorder, and a new recording resetting the note
Recorder ==
    /\ pc = "recorder"
    /\ shown' = shown \cup {"recorder"}
    /\ IF note_audio # ""
       THEN LET bytes == export(note_audio)
                current_md5 == md5(bytes)
            IN  /\ session_state' =
                      IF session_state.note_audio_bytes_md5 # current_md5
                      THEN [session_state EXCEPT !.note_audio_bytes = bytes,
                                                 !.note_audio_text = "",
                                                 !.note_text = "",
                                                 !.note_audio_bytes_md5 = current_md5]
                      ELSE [session_state EXCEPT !.note_audio_bytes = bytes]
                /\ pc' = "transcribe"
                /\ UNCHANGED text_area
       ELSE /\ pc' = "search_tab"
            /\ text_area' = NoWidget
            /\ UNCHANGED session_state
    /\ UNCHANGED <<env, note_audio, search_input, key_input, clicked, prompted,
                   storeVars, raceVars>>

\* lines 189-193: transcribe_audio is a remote call returning some transcript
Transcribe ==
    /\ pc = "transcribe"
    /\ shown' = shown \cup {"transcribe"}
    /\ IF clicked = "transcribe"
       THEN \E t \in Transcripts :
               /\ session_state' = [session_state EXCEPT !.note_audio_text = t]
               /\ call' = [op |-> "transcribe", arg |-> session_state.note_audio_bytes,
                           ret |-> t, err |-> "none"]
       ELSE UNCHANGED <<session_state, call>>
    /\ pc' = "text_area"
    /\ UNCHANGED <<env, note_audio, text_area, search_input, key_input, clicked, prompted,
                   collections, createCalls, lastAdded, raceVars>>

\* lines 195-199: the text area keeps the user's content while its default
\* (value=note_audio_text) is the one it was created with, and starts from
\* the default otherwise; a widget the run does not render is forgotten
TextArea ==
    /\ pc = "text_area"
    /\ IF Truthy(session_state.note_audio_text)
       THEN LET widget ==
                    IF text_area.on /\ text_area.value = session_state.note_audio_text
                    THEN text_area
                    ELSE [on |-> TRUE, value |-> session_state.note_audio_text,
                          content |-> session_state.note_audio_text]
            IN  /\ text_area' = widget
                /\ session_state' = [session_state EXCEPT !.note_text = widget.content]
                /\ shown' = shown \cup {"text_area"}
       ELSE /\ text_area' = NoWidget
            /\ UNCHANGED <<session_state, shown>>
    /\ pc' = "save"
    /\ UNCHANGED <<env, note_audio, search_input, key_input, clicked, prompted,
                   storeVars, raceVars>>

\* a save button created whatever note_text holds
SaveButtonAlways(note_text) == TRUE

\* line 201: `note_text and st.button(...)` creates the button only when
\* note_text is truthy
SaveButtonReached(note_text) == Truthy(note_text)

\* lines 201-205
Save ==
    /\ pc = "save"
    /\ IF SaveButtonReached(session_state.note_text)
       THEN /\ shown' = shown \cup {"save"}
            /\ IF clicked = "save"
               THEN DoAdd(session_state.note_text)
               ELSE UNCHANGED storeVars
       ELSE UNCHANGED <<shown, storeVars>>
    /\ pc' = "search_tab"
    /\ UNCHANGED <<env, session_state, note_audio, text_area, search_input, key_input,
                   clicked, prompted, raceVars>>

\* lines 207-214
SearchTab ==
    /\ pc = "search_tab"
    /\ shown' = shown \cup {"query", "search"}
    /\ IF clicked = "search"
       THEN DoList(search_input)
       ELSE UNCHANGED storeVars
    /\ pc' = "idle"
    /\ clicked' = None
    /\ UNCHANGED <<env, session_state, note_audio, text_area, search_input, key_input,
                   prompted, raceVars>>

\* ------------------------------------------------------------------------
\* Specifications
\* ------------------------------------------------------------------------

vars == <<collections, createCalls, call, lastAdded,
          wpc, wcount, wtext, addsReturned, addedTexts,
          env, session_state, note_audio, text_area, search_input, key_input,
          clicked, shown, prompted, pc>>

Init == InitStore /\ InitRace /\ InitApp /\ env = Absent

CallAssure == DoAssure /\ UNCHANGED <<raceVars, appVars>>

CallAdd ==
    \E t \in Texts :
        NumPoints < MaxNotes /\ DoAdd(t) /\ UNCHANGED <<raceVars, appVars>>

CallList == \E q \in Queries : DoList(q) /\ UNCHANGED <<raceVars, appVars>>

Next == CallAssure \/ CallAdd \/ CallList

Spec == Init /\ [][Next]_vars

RaceCount == \E w \in Writers : WriterCount(w) /\ UNCHANGED appVars

RaceUpsert == \E w \in Writers : WriterUpsert(w) /\ UNCHANGED appVars

NextRace == CallAssure \/ RaceCount \/ RaceUpsert

SpecRace == Init /\ [][NextRace]_vars

InitEnv == InitStore /\ InitRace /\ InitApp /\ env \in EnvKeys

NextApp ==
    \/ OpenPage \/ TypeKey \/ RecordAudio \/ EditNote \/ TypeQuery \/ ClickButton
    \/ EditNoteAndClick
    \/ ProtectKey \/ InitSession \/ Assure \/ Recorder \/ Transcribe \/ TextArea
    \/ Save \/ SearchTab

SpecApp == InitEnv /\ [][NextApp]_vars

\* ------------------------------------------------------------------------
\* Properties
\* ------------------------------------------------------------------------

Name == QDRANT_COLLECTION_NAME

ListReturned == call.op = "list" /\ call.err = "none"

\* C1: every add_note_to_db call that returns successfully, the calls running
\* one at a time, leaves exactly one more point than before, the new point's
\* payload text is the input text, and every point stored before is unchanged.
C1_AddStoresOneNewPoint ==
    [][(call'.op = "add" /\ call'.err = "none") =>
         /\ Cardinality(DOMAIN Points') = Cardinality(DOMAIN Points) + 1
         /\ \A i \in DOMAIN Points : i \in DOMAIN Points' /\ Points'[i] = Points[i]
         /\ \E i \in (DOMAIN Points') \ (DOMAIN Points) :
               Points'[i].payload.text = call'.arg]_vars

\* an add has just returned on a collection that already held several notes
C1_Witness == call.op = "add" /\ call.err = "none" /\ NumPoints >= 3

\* C2: after add_note_to_db(t), list_notes_from_db with an empty or absent
\* query returns a note whose text is t, whatever the collection held before.
C2_RoundTrip ==
    (ListReturned /\ ~Truthy(call.arg) /\ lastAdded # None) =>
        \E k \in 1..Len(call.ret) : call.ret[k].text = lastAdded

\* C3: in the result of list_notes_from_db(q), q non-empty, a stored note whose
\* embedding is strictly closer to embed(q) ranks before every note that is
\* farther, and the scores of the result never increase.
C3_SimilarityOrdering ==
    (ListReturned /\ Truthy(call.arg)) =>
        LET qv == get_embedding(call.arg)
            R  == call.ret
        IN  /\ \A a, b \in DOMAIN Points :
                  Cosine(Points[a].vector, qv) > Cosine(Points[b].vector, qv) =>
                      \A j \in 1..Len(R) :
                          R[j].text = Points[b].payload.text =>
                              /\ \E i \in 1..(j - 1) : R[i].text = Points[a].payload.text
                              /\ \A i \in j..Len(R) : R[i].text # Points[a].payload.text
            /\ \A i, j \in 1..Len(R) : i < j => R[i].score[1] >= R[j].score[1]

\* a search over more notes than the cap, whose result holds both texts although
\* a closer note was stored after a farther one
C3_Witness ==
    /\ ListReturned /\ call.arg = "dairy" /\ NumPoints > Limit
    /\ \E i, j \in 1..Len(call.ret) : call.ret[i].text = "milk" /\ call.ret[j].text = "bread"
    /\ \E a, b \in DOMAIN Points :
          a > b /\ Points[a].payload.text = "milk" /\ Points[b].payload.text = "bread"

\* C4: list_notes_from_db never returns more than 10 entries, with or without
\* a query, however many notes are stored.
C4_ResultCap == ListReturned => Len(call.ret) <= Limit

\* a ranked search over more than 10 stored notes returned exactly 10
C4_Witness ==
    ListReturned /\ Truthy(call.arg) /\ NumPoints > Limit /\ Len(call.ret) = Limit

\* C5: every entry returned for an empty or absent query has score None, and
\* every entry returned for a non-empty query has a numeric score.
C5_ScorePresence ==
    ListReturned =>
        \A k \in 1..Len(call.ret) :
            IF ~Truthy(call.arg)
            THEN call.ret[k].score = NoScore
            ELSE /\ Len(call.ret[k].score) = 1
                 /\ call.ret[k].score[1] \in Int

\* a ranked search returned an entry whose similarity is exactly zero
C5_Witness ==
    ListReturned /\ Truthy(call.arg) /\ \E k \in 1..Len(call.ret) : call.ret[k].score = Score(0)

\* C6: assure_db_collection_exists always leaves exactly the one collection,
\* raises nothing, issues create_collection only when the collection was
\* absent, and leaves an existing collection and its points as they were.
C6_IdempotentCreation ==
    [][call'.op = "assure" =>
         /\ call'.err = "none"
         /\ DOMAIN collections' = {Name}
         /\ createCalls' = createCalls + (IF Name \in DOMAIN collections THEN 0 ELSE 1)
         /\ createCalls' = 1
         /\ Name \in DOMAIN collections => collections' = collections]_vars

\* assure_db_collection_exists ran again after notes had been stored
C6_Witness == call.op = "assure" /\ NumPoints >= 2 /\ createCalls = 1

\* C7: no remote or store call is reached while the session holds no API key,
\* and a run that stops for want of a key has displayed the prompt for it.
C7_CredentialGate ==
    /\ pc \notin {"idle", "protect"} => Truthy(Get(session_state, "openai_api_key"))
    /\ (pc = "idle" /\ session_state.openai_api_key # Absent
          /\ ~Truthy(session_state.openai_api_key)) => prompted

\* the half of C7 the script does keep: past the gate the key is never empty
CredentialGateBlocks ==
    pc \notin {"idle", "protect"} => Truthy(Get(session_state, "openai_api_key"))

\* C8: list_notes_from_db with a non-empty query on an existing collection
\* that holds no points returns the empty sequence and raises nothing.
C8_EmptyStoreSearch ==
    (call.op = "list" /\ Truthy(call.arg) /\ Name \in DOMAIN collections
       /\ NumPoints = 0) => (call.err = "none" /\ call.ret = <<>>)

\* a search has just run on the existing, empty collection
C8_Witness ==
    /\ call.op = "list" /\ call.arg = "dairy" /\ call.err = "none"
    /\ Name \in DOMAIN collections /\ NumPoints = 0

\* C9: an add_note_to_db whose count was read before another writer's upsert
\* lands on the id that writer used: its upsert returns without error, the
\* collection gains no point, and the earlier note is replaced by its own.
C9_StaleCountOverwrites ==
    [][\A w \in Writers :
          (wpc[w] = "counted" /\ wpc'[w] = "idle"
             /\ (wcount[w] + 1) \in DOMAIN Points) =>
                /\ call'.err = "none"
                /\ addsReturned' = addsReturned + 1
                /\ DOMAIN Points' = DOMAIN Points
                /\ Points'[wcount[w] + 1].payload.text = wtext[w]
                /\ \A i \in DOMAIN Points :
                      i # wcount[w] + 1 => Points'[i] = Points[i]]_vars

\* two adds of different texts have returned, the collection holds one point
\* and one of the two texts is stored nowhere
C9_Witness ==
    /\ addsReturned = 2 /\ NumPoints = 1 /\ call.err = "none"
    /\ addedTexts = {"milk", "bread"}
    /\ \E t \in addedTexts : \A i \in DOMAIN Points : Points[i].payload.text # t

\* C10: add_note_to_db is only ever invoked by the script with a non-empty
\* note_text, so every stored point has a non-empty payload text.
C10_NonEmptyPersistedText ==
    /\ call.op = "add" => Truthy(call.arg)
    /\ \A i \in DOMAIN Points : Truthy(Points[i].payload.text)

\* an edited note is stored, and a later run started by the save button with
\* the text area cleared has passed line 201 without adding anything
C10_Witness ==
    /\ pc = "search_tab" /\ clicked = "save"
    /\ text_area.on /\ text_area.content = "" /\ session_state.note_text = ""
    /\ NumPoints = 1 /\ Points[1].payload.text = "bread"
====
